---- MODULE Spec2Model ----
(***************************************************************************)
(* Designer Booking API: the FastAPI handlers of main.py over the document *)
(* store (collections freelancer, portfolioitem, reservation,              *)
(* advertisement, forumthread, forumpost).                                 *)
(*                                                                         *)
(* Strings are sequences of one-character strings, so that lower-casing,   *)
(* substring search and the parsing of identifiers are computed.           *)
(* An ObjectId is a natural number; its string form is OidLen hexadecimal  *)
(* digits (24 in bson, scaled down here).                                  *)
(***************************************************************************)
EXTENDS Integers, Sequences, FiniteSets, TLC

VARIABLES db, nextOid, last, pc, req

vars == <<db, nextOid, last, pc, req>>

----------------------------------------------------------------------------
(* Bounds of the model *)

OidLen == 3
MaxTime == 3
MaxDocs == 2
MaxFreelancers == 2
MaxReservations == 2
MaxAdDocs == 1
MaxConcDocs == 3
MaxExtra == 2
NumProcs == 2

(* Program constants *)

AdLimit == 50
ThreadLimit == 50
PostLimit == 200

----------------------------------------------------------------------------
(* Characters and strings *)

HexDigits == <<"0","1","2","3","4","5","6","7","8","9","a","b","c","d","e","f">>

\* the letters that have two cases in this alphabet
LowerChar(c) ==
    CASE c = "A" -> "a" [] c = "B" -> "b" [] c = "C" -> "c" [] c = "D" -> "d"
      [] c = "E" -> "e" [] c = "F" -> "f" [] c = "N" -> "n" [] OTHER -> c

UpperChar(c) ==
    CASE c = "a" -> "A" [] c = "b" -> "B" [] c = "c" -> "C" [] c = "d" -> "D"
      [] c = "e" -> "E" [] c = "f" -> "F" [] c = "n" -> "N" [] OTHER -> c

\* str.lower()
lower(s) == [i \in 1..Len(s) |-> LowerChar(s[i])]

\* str.upper(), used to build client inputs
upper(s) == [i \in 1..Len(s) |-> UpperChar(s[i])]

\* Python's `n in h` on strings
Contains(h, n) ==
    \E i \in 0..(Len(h) - Len(n)) :
        \A j \in 1..Len(n) : h[i + j] = n[j]

----------------------------------------------------------------------------
(* bson.ObjectId *)

RECURSIVE Pow16(_)
Pow16(k) == IF k = 0 THEN 1 ELSE 16 * Pow16(k - 1)

\* str(ObjectId): OidLen lower-case hexadecimal digits
PlaceValues == [i \in 1..OidLen |-> Pow16(OidLen - i)]

OidStr(n) == [i \in 1..OidLen |-> HexDigits[((n \div PlaceValues[i]) % 16) + 1]]

HexVal(c) == CHOOSE k \in 0..15 : HexDigits[k + 1] = LowerChar(c)

IsHexChar(c) == \E k \in 1..16 : HexDigits[k] = LowerChar(c)

\* ObjectId(s) raises InvalidId unless s is OidLen hexadecimal digits of either case
IsValidOid(s) == Len(s) = OidLen /\ \A i \in 1..Len(s) : IsHexChar(s[i])

RECURSIVE HexNum(_)
HexNum(s) == IF Len(s) = 0 THEN 0
             ELSE 16 * HexNum(SubSeq(s, 1, Len(s) - 1)) + HexVal(s[Len(s)])

\* ObjectId(s) for a valid s
ObjectId(s) == HexNum(s)

\* the first identifier the store hands out
OidBase == 10


----------------------------------------------------------------------------
(* Document Store Gateway (database.py) *)

Collections == {"freelancer", "portfolioitem", "reservation",
                "advertisement", "forumthread", "forumpost"}

EmptyStore == [c \in Collections |-> <<>>]

\* limit=None of get_documents
None == 0

\* create_document(collection_name, data): the store appends the record's
\* fields under a fresh identifier
create_document(store, coll, data, oid) ==
    [store EXCEPT ![coll] = Append(@, data @@ ("_id" :> oid))]

\* a filter document is a sequence of conditions on fields, all to hold:
\* {"f": v} is [field |-> "f", op |-> "eq", value |-> v] and
\* {"f": {"$regex": v, "$options": "i"}} is [field |-> "f", op |-> "regex_i",
\* value |-> v], which on a list field holds when some element matches
Holds(cond, d) ==
    IF cond.op = "eq"
    THEN d[cond.field] = cond.value
    ELSE \E i \in 1..Len(d[cond.field]) :
             Contains(lower(d[cond.field][i]), lower(cond.value))

MatchesFilter(filt, d) == \A k \in 1..Len(filt) : Holds(filt[k], d)

\* get_documents(collection_name, filter, limit): the matching documents in
\* store order, at most `limit` of them unless limit is None
get_documents(store, coll, filt, limit) ==
    LET found == SelectSeq(store[coll], LAMBDA d : MatchesFilter(filt, d))
    IN  IF limit = None \/ Len(found) <= limit
        THEN found
        ELSE SubSeq(found, 1, limit)

\* db[coll].find_one({"_id": oid}) is not None
find_one_by_id(store, coll, oid) ==
    \E i \in 1..Len(store[coll]) : store[coll][i]["_id"] = oid

\* d["_id"] = str(d.get("_id")) over the documents of a listing
StrIds(docs) ==
    [i \in 1..Len(docs) |-> [docs[i] EXCEPT !["_id"] = OidStr(@)]]

----------------------------------------------------------------------------
(* Responses *)

NoItems == <<>>
NoId == <<>>

Response(op, request, status, id, items, detail) ==
    [op |-> op, req |-> request, status |-> status, id |-> id,
     items |-> items, detail |-> detail]

Procs == 1..NumProcs

Idle == [p \in Procs |-> "idle"]
NoReq == [p \in Procs |-> <<>>]

\* the model stops inserting after `max` documents
Fresh(max) == nextOid - OidBase < max

\* a successful create: one insert, {"id": inserted_id}
Created(op, coll, payload) ==
    /\ db' = create_document(db, coll, payload, nextOid)
    /\ nextOid' = nextOid + 1
    /\ last' = Response(op, payload, 200, OidStr(nextOid), NoItems, "")

\* raise HTTPException(status_code, detail)
Rejected(op, payload, status, detail) ==
    /\ last' = Response(op, payload, status, NoId, NoItems, detail)
    /\ UNCHANGED <<db, nextOid>>

\* a listing: {"items": docs}
Listed(op, query, docs) ==
    /\ last' = Response(op, query, 200, NoId, StrIds(docs), "")
    /\ UNCHANGED <<db, nextOid>>

----------------------------------------------------------------------------
(* Misc endpoints *)

read_root ==
    /\ last' = Response("read_root", <<>>, 200, NoId, NoItems,
                        "Designer Booking Backend Running")
    /\ UNCHANGED <<db, nextOid, pc, req>>

hello ==
    /\ last' = Response("hello", <<>>, 200, NoId, NoItems,
                        "Hello from the backend API!")
    /\ UNCHANGED <<db, nextOid, pc, req>>

\* reads db.list_collection_names() only
test_database ==
    /\ last' = Response("test_database", <<>>, 200, NoId, NoItems,
                        "Connected & Working")
    /\ UNCHANGED <<db, nextOid, pc, req>>

----------------------------------------------------------------------------
(* Freelancers *)

create_freelancer(Inputs, room) ==
    \E payload \in Inputs :
        /\ room
        /\ Created("create_freelancer", "freelancer", payload)
        /\ UNCHANGED <<pc, req>>

\* {"skills": {"$regex": skill, "$options": "i"}} if skill else {}
SkillFilter(skill) ==
    IF skill = <<>> THEN <<>>
    ELSE <<[field |-> "skills", op |-> "regex_i", value |-> skill]>>

list_freelancers(Inputs) ==
    \E skill \in Inputs :
        /\ Listed("list_freelancers", skill,
                  get_documents(db, "freelancer",
                                SkillFilter(skill), None))
        /\ UNCHANGED <<pc, req>>

----------------------------------------------------------------------------
(* Portfolio *)

\* RefStatus with the InvalidId error swallowed into the lookup's "not found"
RefStatus_invalid_as_missing(store, coll, ref) ==
    IF ~IsValidOid(ref) THEN 404
    ELSE IF ~find_one_by_id(store, coll, ObjectId(ref)) THEN 404 ELSE 200

\* RefStatus without the find_one lookup
RefStatus_no_lookup(store, coll, ref) ==
    IF ~IsValidOid(ref) THEN 400 ELSE 200

\* try: _id = ObjectId(ref) except: 400; if not find_one({"_id": _id}): 404
RefStatus(store, coll, ref) ==
    IF ~IsValidOid(ref) THEN 400
    ELSE IF ~find_one_by_id(store, coll, ObjectId(ref)) THEN 404 ELSE 200

\* the checks of add_portfolio, in order: 400, 404, else 200
PortfolioStatus(store, item) == RefStatus(store, "freelancer", item.freelancer_id)

PortfolioDetail(status) ==
    IF status = 400 THEN "Invalid freelancer_id" ELSE "Freelancer not found"

add_portfolio(Inputs, room) ==
    \E item \in Inputs :
        LET status == PortfolioStatus(db, item)
        IN  /\ IF status = 200
               THEN room /\ Created("add_portfolio", "portfolioitem", item)
               ELSE Rejected("add_portfolio", item, status, PortfolioDetail(status))
            /\ UNCHANGED <<pc, req>>

\* {"freelancer_id": freelancer_id} if freelancer_id else {}
FreelancerIdFilter(freelancer_id) ==
    IF freelancer_id = <<>> THEN <<>>
    ELSE <<[field |-> "freelancer_id", op |-> "eq", value |-> freelancer_id]>>

list_portfolio(Inputs) ==
    \E freelancer_id \in Inputs :
        /\ Listed("list_portfolio", freelancer_id,
                  get_documents(db, "portfolioitem",
                                FreelancerIdFilter(freelancer_id), None))
        /\ UNCHANGED <<pc, req>>

----------------------------------------------------------------------------
(* Reservations *)

\* db["reservation"].find_one({"freelancer_id": res.freelancer_id,
\*   "$or": [{"start_time": {"$lt": res.end_time},
\*            "end_time": {"$gt": res.start_time}}]})
find_overlap(store, res) ==
    \E i \in 1..Len(store["reservation"]) :
        LET d == store["reservation"][i]
        IN  /\ d.freelancer_id = res.freelancer_id
            /\ d.start_time < res.end_time
            /\ d.end_time > res.start_time

\* the checks of create_reservation, in order: 400, 404, 409, else 200
ReservationStatus(store, res) ==
    LET ref == RefStatus(store, "freelancer", res.freelancer_id)
    IN  IF ref # 200 THEN ref
        ELSE IF find_overlap(store, res) THEN 409 ELSE 200

ReservationDetail(status) ==
    CASE status = 400 -> "Invalid freelancer_id"
      [] status = 404 -> "Freelancer not found"
      [] OTHER -> "Reservation overlaps with an existing booking"

\* create_reservation that, on an overlap, replaces the booking it collides
\* with (replace_one) before answering 409
create_reservation_replace(Inputs, room) ==
    \E res \in Inputs :
        LET status == ReservationStatus(db, res)
            hit == CHOOSE i \in 1..Len(db["reservation"]) :
                       LET d == db["reservation"][i]
                       IN  /\ d.freelancer_id = res.freelancer_id
                           /\ d.start_time < res.end_time
                           /\ d.end_time > res.start_time
        IN  /\ IF status = 200
               THEN room /\ Created("create_reservation", "reservation", res)
               ELSE IF status = 409
                    THEN /\ db' = [db EXCEPT !["reservation"][hit] =
                                      res @@ ("_id" :> @["_id"])]
                         /\ nextOid' = nextOid
                         /\ last' = Response("create_reservation", res, 409, NoId,
                                             NoItems, ReservationDetail(409))
                    ELSE Rejected("create_reservation", res, status,
                                  ReservationDetail(status))
            /\ UNCHANGED <<pc, req>>

create_reservation(Inputs, room) ==
    \E res \in Inputs :
        LET status == ReservationStatus(db, res)
        IN  /\ IF status = 200
               THEN room /\ Created("create_reservation", "reservation", res)
               ELSE Rejected("create_reservation", res, status,
                             ReservationDetail(status))
            /\ UNCHANGED <<pc, req>>

\* filt = {}; if freelancer_id: ...; if business_email: ...
ReservationFilter(q) ==
    FreelancerIdFilter(q.freelancer_id) \o
    (IF q.business_email = <<>> THEN <<>>
     ELSE <<[field |-> "business_email", op |-> "eq", value |-> q.business_email]>>)

list_reservations(Inputs) ==
    \E q \in Inputs :
        /\ Listed("list_reservations", q,
                  get_documents(db, "reservation",
                                ReservationFilter(q), None))
        /\ UNCHANGED <<pc, req>>

----------------------------------------------------------------------------
(* Advertisements *)

\* missing without the two lower() calls
missing_case_sensitive(ad) ==
    SelectSeq(ad.designers, LAMBDA n : ~Contains(ad.heading, n))

\* [n for n in ad.designers if n.lower() not in heading_lower]
missing(ad) ==
    SelectSeq(ad.designers, LAMBDA n : ~Contains(lower(ad.heading), lower(n)))

\* ', '.join(names)
RECURSIVE Join(_)
Join(names) ==
    IF Len(names) = 0 THEN <<>>
    ELSE IF Len(names) = 1 THEN names[1]
         ELSE names[1] \o <<",", " ">> \o Join(Tail(names))

\* the checks of create_ad: 400 twice, else 200
AdStatus(ad) ==
    IF ad.ad_type = "business"
    THEN IF Len(ad.designers) = 0 THEN 400
         ELSE IF Len(missing(ad)) # 0 THEN 400 ELSE 200
    ELSE 200

AdDetail(ad) ==
    IF Len(ad.designers) = 0
    THEN <<"Business ads must include designers responsible">>
    ELSE <<"Heading must include designers: ", Join(missing(ad))>>

create_ad(Inputs, room) ==
    \E ad \in Inputs :
        LET status == AdStatus(ad)
        IN  /\ IF status = 200
               THEN room /\ Created("create_ad", "advertisement", ad)
               ELSE Rejected("create_ad", ad, status, AdDetail(ad))
            /\ UNCHANGED <<pc, req>>

\* {"ad_type": ad_type} if ad_type else {}
AdTypeFilter(ad_type) ==
    IF ad_type = "" THEN <<>>
    ELSE <<[field |-> "ad_type", op |-> "eq", value |-> ad_type]>>

\* list_ads with limit=None
list_ads_unlimited(Inputs) ==
    \E ad_type \in Inputs :
        /\ Listed("list_ads", ad_type,
                  get_documents(db, "advertisement",
                                AdTypeFilter(ad_type), None))
        /\ UNCHANGED <<pc, req>>

list_ads(Inputs) ==
    \E ad_type \in Inputs :
        /\ Listed("list_ads", ad_type,
                  get_documents(db, "advertisement",
                                AdTypeFilter(ad_type), AdLimit))
        /\ UNCHANGED <<pc, req>>

----------------------------------------------------------------------------
(* Forum *)

create_thread(Inputs, room) ==
    \E thread \in Inputs :
        /\ room
        /\ Created("create_thread", "forumthread", thread)
        /\ UNCHANGED <<pc, req>>

\* {"tags": {"$regex": tag, "$options": "i"}} if tag else {}
TagFilter(tag) ==
    IF tag = <<>> THEN <<>>
    ELSE <<[field |-> "tags", op |-> "regex_i", value |-> tag]>>

list_threads(Inputs) ==
    \E tag \in Inputs :
        /\ Listed("list_threads", tag,
                  get_documents(db, "forumthread",
                                TagFilter(tag), ThreadLimit))
        /\ UNCHANGED <<pc, req>>

\* the checks of create_post, in order: 400, 404, else 200
PostStatus(store, post) == RefStatus(store, "forumthread", post.thread_id)

PostDetail(status) ==
    IF status = 400 THEN "Invalid thread_id" ELSE "Thread not found"

\* create_post with the insert moved above the thread check
create_post_insert_first(Inputs, room) ==
    \E post \in Inputs :
        LET status == PostStatus(db, post)
        IN  /\ room
            /\ db' = create_document(db, "forumpost", post, nextOid)
            /\ nextOid' = nextOid + 1
            /\ last' = IF status = 200
                       THEN Response("create_post", post, 200, OidStr(nextOid),
                                     NoItems, "")
                       ELSE Response("create_post", post, status, NoId, NoItems,
                                     PostDetail(status))
            /\ UNCHANGED <<pc, req>>

create_post(Inputs, room) ==
    \E post \in Inputs :
        LET status == PostStatus(db, post)
        IN  /\ IF status = 200
               THEN room /\ Created("create_post", "forumpost", post)
               ELSE Rejected("create_post", post, status, PostDetail(status))
            /\ UNCHANGED <<pc, req>>

\* {"thread_id": thread_id}
ThreadIdFilter(thread_id) ==
    <<[field |-> "thread_id", op |-> "eq", value |-> thread_id]>>

\* list_posts with the limit of the thread listing
list_posts_short(Inputs) ==
    \E thread_id \in Inputs :
        /\ Listed("list_posts", thread_id,
                  get_documents(db, "forumpost",
                                ThreadIdFilter(thread_id), ThreadLimit))
        /\ UNCHANGED <<pc, req>>

list_posts(Inputs) ==
    \E thread_id \in Inputs :
        /\ Listed("list_posts", thread_id,
                  get_documents(db, "forumpost",
                                ThreadIdFilter(thread_id), PostLimit))
        /\ UNCHANGED <<pc, req>>

----------------------------------------------------------------------------
(* Request payloads *)

\* identifiers a client may send for a document of `coll`: the string the
\* API returned, the same digits in upper case, a well-formed identifier of
\* no document, a string with a non-hexadecimal character, a short string
RefStrings(coll) ==
    UNION {{OidStr(db[coll][i]["_id"]), upper(OidStr(db[coll][i]["_id"]))} :
              i \in 1..Len(db[coll])}
      \cup {OidStr(nextOid), [i \in 1..OidLen |-> "g"], <<"a">>}

\* the identifiers of the documents of `coll` as the API returned them
KnownIds(coll) == {OidStr(db[coll][i]["_id"]) : i \in 1..Len(db[coll])}

Times == 1..MaxTime

FreelancerInputs ==
    {[name |-> <<"A","d","a">>, skills |-> << <<"D","e","c","a","f">> >>]}

SkillInputs == {<<>>, <<"d","E">>}

PortfolioInputs ==
    {[freelancer_id |-> f, title |-> <<"f","a","d","e">>] :
        f \in RefStrings("freelancer")}

\* every pair of times over T
Intervals(T) ==
    {<<s, e>> : s \in T, e \in T}

ReservationInputs(Ids, I, Statuses) ==
    {[business_email |-> <<"b">>, freelancer_id |-> f, start_time |-> i[1],
      end_time |-> i[2], status |-> st] :
        f \in Ids, i \in I, st \in Statuses}

ReservationQueries ==
    {[freelancer_id |-> f, business_email |-> m] :
        f \in {<<>>} \cup KnownIds("freelancer"), m \in {<<>>, <<"b">>}}

AdTypes == {"business", "freelancer"}

Names == {<<"A","n">>, <<"b">>}

RECURSIVE SeqsUpTo(_, _)
SeqsUpTo(S, n) ==
    IF n = 0 THEN {<<>>}
    ELSE LET shorter == SeqsUpTo(S, n - 1)
         IN  shorter \cup {Append(q, x) : q \in shorter, x \in S}

Headings == {<<"a","N","b">>, <<"A","n">>, <<"c">>}

AdInputs(H, D) ==
    {[ad_type |-> t, heading |-> h, designers |-> d] :
        t \in AdTypes, h \in H, d \in D}

ThreadInputs ==
    {[title |-> <<"c">>, author_type |-> "guest", tags |-> << <<"F","a","b">> >>]}

TagInputs == {<<>>, <<"f","A">>}

PostInputs ==
    {[thread_id |-> t, content |-> <<"e">>] : t \in RefStrings("forumthread")}

----------------------------------------------------------------------------
(* Spec: every endpoint, requests executed one at a time *)

Init ==
    /\ db = EmptyStore
    /\ nextOid = OidBase
    /\ last = Response("start", <<>>, 200, NoId, NoItems, "")
    /\ pc = Idle
    /\ req = NoReq

Next ==
    \/ read_root
    \/ hello
    \/ test_database
    \/ create_freelancer(FreelancerInputs, Fresh(MaxDocs))
    \/ list_freelancers(SkillInputs)
    \/ add_portfolio(PortfolioInputs, Fresh(MaxDocs))
    \/ list_portfolio({<<>>} \cup KnownIds("freelancer"))
    \/ create_reservation(ReservationInputs(RefStrings("freelancer"),
                                            {<<1, 2>>, <<2, 3>>},
                                            {"pending", "confirmed"}),
                          Fresh(MaxDocs))
    \/ list_reservations(ReservationQueries)
    \/ create_ad(AdInputs({<<"a","N">>, <<"c">>}, {<<>>, << <<"A","n">> >>}),
                 Fresh(MaxDocs))
    \/ list_ads({"", "business"})
    \/ create_thread(ThreadInputs, Fresh(MaxDocs))
    \/ list_threads(TagInputs)
    \/ create_post(PostInputs, Fresh(MaxDocs))
    \/ list_posts(KnownIds("forumthread") \cup {OidStr(nextOid)})

Spec == Init /\ [][Next]_vars

----------------------------------------------------------------------------
(* SpecRes: bookings, requests executed one at a time *)

\* the identifiers of the stored freelancers, in either case
ExistingRefs(coll) ==
    UNION {{OidStr(db[coll][i]["_id"]), upper(OidStr(db[coll][i]["_id"]))} :
              i \in 1..Len(db[coll])}

\* the proper intervals over Times, an empty one and an inverted one
BookingIntervals ==
    {i \in Intervals(Times) : i[1] < i[2]} \cup {<<2, 2>>, <<MaxTime, 1>>}

NextRes ==
    \/ create_freelancer(FreelancerInputs, Len(db["freelancer"]) < MaxFreelancers)
    \/ create_reservation(ReservationInputs(ExistingRefs("freelancer"),
                                            BookingIntervals,
                                            {"pending", "cancelled"}),
                          Len(db["reservation"]) < MaxReservations)

SpecRes == Init /\ [][NextRes]_vars

----------------------------------------------------------------------------
(* SpecAds: advertisements, requests executed one at a time *)

NextAds ==
    \/ create_ad(AdInputs(Headings, SeqsUpTo(Names, 2)), Fresh(MaxAdDocs))
    \/ list_ads({""} \cup AdTypes)

SpecAds == Init /\ [][NextAds]_vars

----------------------------------------------------------------------------
(* SpecConc: requests interleaved at their store operations.  A handler    *)
(* with several store operations is one step per operation; pc[p] is the   *)
(* position of request p and req[p] its payload.                           *)

InFlight == Cardinality({p \in Procs : pc[p] # "idle"})

\* the model admits a create only while the documents stored and in flight
\* stay under MaxConcDocs
ConcRoom == nextOid - OidBase + InFlight < MaxConcDocs

\* the detail of a handler's 400 or 404
RefDetail(op, status) ==
    CASE op = "add_portfolio" -> PortfolioDetail(status)
      [] op = "create_reservation" -> ReservationDetail(status)
      [] OTHER -> PostDetail(status)

Goto(p, label, payload) ==
    /\ pc' = [pc EXCEPT ![p] = label]
    /\ req' = [req EXCEPT ![p] = payload]

\* a handler's first store operation: the lookup of the referenced document
Begin(p, op, coll, ref, payload, label) ==
    /\ pc[p] = "idle"
    /\ LET status == RefStatus(db, coll, ref)
       IN  IF status = 200
           THEN /\ ConcRoom
                /\ Goto(p, label, payload)
                /\ UNCHANGED <<db, nextOid, last>>
           ELSE /\ Rejected(op, payload, status, RefDetail(op, status))
                /\ UNCHANGED <<pc, req>>

\* a handler's last store operation: create_document
Insert(p, op, coll, label) ==
    /\ pc[p] = label
    /\ Created(op, coll, req[p])
    /\ Goto(p, "idle", <<>>)

pf_lookup(p, Inputs) ==
    \E item \in Inputs :
        Begin(p, "add_portfolio", "freelancer", item.freelancer_id, item,
              "pf_insert")

pf_insert(p) == Insert(p, "add_portfolio", "portfolioitem", "pf_insert")

res_lookup(p, Inputs) ==
    \E res \in Inputs :
        Begin(p, "create_reservation", "freelancer", res.freelancer_id, res,
              "res_overlap")

\* the second store operation of create_reservation: the overlap query
res_overlap(p) ==
    /\ pc[p] = "res_overlap"
    /\ IF find_overlap(db, req[p])
       THEN /\ Rejected("create_reservation", req[p], 409, ReservationDetail(409))
            /\ Goto(p, "idle", <<>>)
       ELSE /\ Goto(p, "res_insert", req[p])
            /\ UNCHANGED <<db, nextOid, last>>

\* what a handler holding a lock over lookup and insert would do
res_insert_rechecked(p) ==
    /\ pc[p] = "res_insert"
    /\ IF find_overlap(db, req[p])
       THEN Rejected("create_reservation", req[p], 409, ReservationDetail(409))
       ELSE Created("create_reservation", "reservation", req[p])
    /\ Goto(p, "idle", <<>>)

\* the third store operation of create_reservation: the insert
res_insert(p) == Insert(p, "create_reservation", "reservation", "res_insert")

post_lookup(p, Inputs) ==
    \E post \in Inputs :
        Begin(p, "create_post", "forumthread", post.thread_id, post,
              "post_insert")

post_insert(p) == Insert(p, "create_post", "forumpost", "post_insert")

ConcRefs(coll) == KnownIds(coll) \cup {OidStr(nextOid), <<"a">>}

NextConc ==
    \/ create_freelancer(FreelancerInputs, ConcRoom)
    \/ create_thread(ThreadInputs, ConcRoom)
    \/ \E p \in Procs :
        \/ pf_lookup(p, {[freelancer_id |-> f, title |-> <<"f","a","d","e">>] :
                            f \in ConcRefs("freelancer")})
        \/ pf_insert(p)
        \/ res_lookup(p, ReservationInputs(ConcRefs("freelancer"),
                                           {<<1, 3>>, <<2, 3>>, <<1, 2>>},
                                           {"pending"}))
        \/ res_overlap(p)
        \/ res_insert(p)
        \/ post_lookup(p, {[thread_id |-> t, content |-> <<"e">>] :
                              t \in ConcRefs("forumthread")})
        \/ post_insert(p)

SpecConc == Init /\ [][NextConc]_vars

----------------------------------------------------------------------------
(* SpecCap: the listings at their limits.  The store outlives the process:  *)
(* the service starts over the documents earlier requests have inserted,    *)
(* here one short of each limit, and more than a limit where none applies.  *)

\* payloads inserted one after the other, the first under identifier `first`
Stored(payloads, first) ==
    [i \in 1..Len(payloads) |-> payloads[i] @@ ("_id" :> (first + i - 1))]

Copies(n, payload) == [i \in 1..n |-> payload]

NThreads == ThreadLimit - 1
NAds == AdLimit - 1
NPosts == PostLimit - 1
NFreelancers == AdLimit + 1
NPortfolio == AdLimit + 1
NReservations == AdLimit + 1

FirstThread == OidBase
FirstFreelancer == FirstThread + NThreads
FirstAd == FirstFreelancer + NFreelancers
FirstPost == FirstAd + NAds
FirstPortfolio == FirstPost + NPosts
FirstReservation == FirstPortfolio + NPortfolio
CapBase == FirstReservation + NReservations

CapFreelancer == [name |-> <<"A","d","a">>, skills |-> << <<"D","e","c","a","f">> >>]
CapThread == [title |-> <<"c">>, author_type |-> "guest", tags |-> << <<"F","a","b">> >>]
CapAd == [ad_type |-> "freelancer", heading |-> <<"c">>, designers |-> <<>>]
CapPost == [thread_id |-> OidStr(FirstThread), content |-> <<"e">>]
CapPortfolio == [freelancer_id |-> OidStr(FirstFreelancer), title |-> <<"f","a","d","e">>]
CapReservation(i) ==
    [business_email |-> <<"b">>, freelancer_id |-> OidStr(FirstFreelancer),
     start_time |-> i, end_time |-> i + 1, status |-> "pending"]

InitCap ==
    /\ db = [freelancer |-> Stored(Copies(NFreelancers, CapFreelancer), FirstFreelancer),
             portfolioitem |-> Stored(Copies(NPortfolio, CapPortfolio), FirstPortfolio),
             reservation |-> Stored([i \in 1..NReservations |-> CapReservation(i)],
                                    FirstReservation),
             advertisement |-> Stored(Copies(NAds, CapAd), FirstAd),
             forumthread |-> Stored(Copies(NThreads, CapThread), FirstThread),
             forumpost |-> Stored(Copies(NPosts, CapPost), FirstPost)]
    /\ nextOid = CapBase
    /\ last = Response("start", <<>>, 200, NoId, NoItems, "")
    /\ pc = Idle
    /\ req = NoReq

CapRoom == nextOid - CapBase < MaxExtra

NextCap ==
    \/ create_freelancer({CapFreelancer}, CapRoom)
    \/ list_freelancers({<<>>, <<"d","E">>})
    \/ add_portfolio({CapPortfolio}, CapRoom)
    \/ list_portfolio({<<>>, OidStr(FirstFreelancer)})
    \/ create_reservation({CapReservation(NReservations + 1)}, CapRoom)
    \/ list_reservations({[freelancer_id |-> <<>>, business_email |-> <<>>],
                          [freelancer_id |-> OidStr(FirstFreelancer),
                           business_email |-> <<"b">>]})
    \/ create_ad({CapAd, [ad_type |-> "business", heading |-> <<"a","N">>,
                          designers |-> << <<"A","n">> >>]}, CapRoom)
    \/ list_ads({"", "business"})
    \/ create_thread({CapThread}, CapRoom)
    \/ list_threads({<<>>, <<"f","A">>})
    \/ create_post({CapPost, [thread_id |-> upper(OidStr(FirstThread + 1)),
                              content |-> <<"e">>]}, CapRoom)
    \/ list_posts({OidStr(FirstThread), upper(OidStr(FirstThread + 1))})

SpecCap == InitCap /\ [][NextCap]_vars

----------------------------------------------------------------------------
(* Vocabulary of the properties *)

LastDoc(coll) == db[coll][Len(db[coll])]

\* the fields a client sent, as stored
Fields(d) == [k \in DOMAIN d \ {"_id"} |-> d[k]]

\* the latest response is a successful create into `coll` and the document
\* it reports is the newest of that collection, under the returned id
Inserted(coll) ==
    /\ Len(db[coll]) > 0
    /\ last.id = OidStr(LastDoc(coll)["_id"])
    /\ Fields(LastDoc(coll)) = last.req

IsPrefix(a, b) == Len(a) <= Len(b) /\ \A i \in 1..Len(a) : a[i] = b[i]

\* two freelancer_id strings denote the same Freelancer document
SameFreelancer(a, b) == IsValidOid(a) /\ IsValidOid(b) /\ ObjectId(a) = ObjectId(b)

\* [s1,e1) and [s2,e2) intersect
Intersects(s1, e1, s2, e2) == s1 < e2 /\ s2 < e1

\* the reservation collection as the latest create_reservation request found it
ReservationsBefore ==
    IF last.status = 200
    THEN SubSeq(db["reservation"], 1, Len(db["reservation"]) - 1)
    ELSE db["reservation"]

----------------------------------------------------------------------------
(* C1 *)

C1_Conflict ==
    \E i \in 1..Len(ReservationsBefore) :
        LET d == ReservationsBefore[i]
        IN  /\ SameFreelancer(d.freelancer_id, last.req.freelancer_id)
            /\ d.start_time < last.req.end_time
            /\ last.req.start_time < d.end_time

\* C1: a POST /reservations for an existing freelancer is answered 409 iff
\* some stored reservation of the same freelancer (same Freelancer document,
\* any status) has s1 < new.end_time and new.start_time < e1; otherwise the
\* reservation is inserted and its id returned.
C1_RejectedIffOverlap ==
    (last.op = "create_reservation" /\ last.status \in {200, 409}) =>
        /\ last.status = 409 <=> C1_Conflict
        /\ last.status = 200 => Inserted("reservation")

----------------------------------------------------------------------------
(* C2 *)

\* C2: the overlap lookup and the insert of a POST /reservations are separate
\* store operations with nothing atomic between them: the insert step of a
\* request that passed its lookup writes the reservation whatever the store
\* holds by then, so two interleaved requests for overlapping windows both
\* insert.
C2_InsertNotRechecked ==
    [][\A p \in Procs :
          (pc[p] = "res_insert" /\ pc'[p] = "idle") =>
              /\ db'["reservation"] =
                   Append(db["reservation"], req[p] @@ ("_id" :> nextOid))
              /\ last'.status = 200]_vars

\* two stored reservations under one freelancer_id string whose intervals
\* intersect: the outcome of the race
C2_DoubleBooked ==
    \E i, j \in 1..Len(db["reservation"]) :
        LET a == db["reservation"][i]
            b == db["reservation"][j]
        IN  /\ i < j
            /\ a.freelancer_id = b.freelancer_id
            /\ Intersects(a.start_time, a.end_time, b.start_time, b.end_time)

----------------------------------------------------------------------------
(* C3 *)

\* C3: with requests executed one at a time, no two distinct stored
\* reservations of the same freelancer (same Freelancer document) have
\* intersecting intervals.
C3_NoDoubleBooking ==
    \A i, j \in 1..Len(db["reservation"]) :
        LET a == db["reservation"][i]
            b == db["reservation"][j]
        IN  (i < j /\ SameFreelancer(a.freelancer_id, b.freelancer_id)) =>
                ~Intersects(a.start_time, a.end_time, b.start_time, b.end_time)

----------------------------------------------------------------------------
(* C4 *)

RefOps == {"add_portfolio", "create_reservation", "create_post"}

RefOf(r) == IF r.op = "create_post" THEN r.req.thread_id ELSE r.req.freelancer_id

RefCollection(r) == IF r.op = "create_post" THEN "forumthread" ELSE "freelancer"

Resolves(coll, ref) ==
    \E i \in 1..Len(db[coll]) : OidStr(db[coll][i]["_id"]) = lower(ref)

\* C4: POST /portfolio, /reservations and /forum/posts answer 400 exactly
\* when the referenced id does not parse, and 404 exactly when it parses and
\* no document of the referenced collection has it; so 400 goes before 404
\* and both go before the 409 of a reservation.
C4_RefErrors ==
    last.op \in RefOps =>
        /\ last.status = 400 <=> ~IsValidOid(RefOf(last))
        /\ last.status = 404 <=>
              (IsValidOid(RefOf(last)) /\ ~Resolves(RefCollection(last), RefOf(last)))

C4_Witness ==
    /\ last.op = "create_reservation"
    /\ last.status = 404
    /\ Len(db["freelancer"]) > 0
    /\ Len(db["reservation"]) > 0

----------------------------------------------------------------------------
(* C5 *)

\* C5: a create request answered with an error (400, 404, 409) leaves every
\* collection as it was: no document is written on a failed request.
C5_ErrorsWriteNothing ==
    [][last'.status \in {400, 404, 409} => (db' = db /\ nextOid' = nextOid)]_vars

C5_Witness ==
    /\ last.op = "create_reservation"
    /\ last.status = 409
    /\ Len(db["reservation"]) = 1

----------------------------------------------------------------------------
(* C6 *)

\* n occurs in h, whatever the case of the letters
CiContains(h, n) ==
    \/ Len(n) = 0
    \/ \E i \in 1..Len(h) : \E j \in i..Len(h) : lower(SubSeq(h, i, j)) = lower(n)

\* the names of `names` that do not occur in h, in their order
RECURSIVE Absent(_, _)
Absent(names, h) ==
    IF Len(names) = 0 THEN <<>>
    ELSE (IF CiContains(h, Head(names)) THEN <<>> ELSE <<Head(names)>>)
           \o Absent(Tail(names), h)

\* C6: a business advertisement is inserted (200, id returned) iff designers
\* is non-empty and every designer occurs, case-insensitively, in heading;
\* otherwise it is answered 400 and, designers being non-empty, the error
\* lists exactly the absent names in their order.  A freelancer advertisement
\* is always inserted.
C6_AdRule ==
    last.op = "create_ad" =>
        LET ad == last.req
            ok == \/ ad.ad_type = "freelancer"
                  \/ /\ Len(ad.designers) > 0
                     /\ \A i \in 1..Len(ad.designers) :
                            CiContains(ad.heading, ad.designers[i])
        IN  /\ last.status = 200 <=> ok
            /\ last.status = 200 => Inserted("advertisement")
            /\ last.status # 200 =>
                  /\ last.status = 400
                  /\ Len(ad.designers) > 0 =>
                        last.detail[2] = Join(Absent(ad.designers, ad.heading))

C6_Witness ==
    /\ last.op = "create_ad"
    /\ last.status = 400
    /\ last.req.heading = <<"A","n">>
    /\ last.req.designers = << <<"A","n">>, <<"b">> >>
    /\ last.detail[2] = <<"b">>

----------------------------------------------------------------------------
(* C7 *)

CreateOps ==
    [create_freelancer |-> "freelancer", add_portfolio |-> "portfolioitem",
     create_reservation |-> "reservation", create_ad |-> "advertisement",
     create_thread |-> "forumthread", create_post |-> "forumpost"]

ListOps ==
    [list_freelancers |-> "freelancer", list_portfolio |-> "portfolioitem",
     list_reservations |-> "reservation", list_ads |-> "advertisement",
     list_threads |-> "forumthread", list_posts |-> "forumpost"]

\* the latest request is a listing that narrows nothing (for forum posts: a
\* listing by thread_id)
Unfiltered ==
    /\ last.op \in DOMAIN ListOps
    /\ \/ last.op \in {"list_freelancers", "list_portfolio", "list_threads"}
          /\ last.req = <<>>
       \/ last.op = "list_reservations"
          /\ last.req = [freelancer_id |-> <<>>, business_email |-> <<>>]
       \/ last.op = "list_ads" /\ last.req = ""
       \/ last.op = "list_posts"

\* the documents the listing is to give back: the whole collection, for
\* forum posts those carrying the thread_id asked for
Expected ==
    IF last.op = "list_posts"
    THEN SelectSeq(db["forumpost"], LAMBDA d : d.thread_id = last.req)
    ELSE db[ListOps[last.op]]

Returned(d) ==
    LET x == OidStr(d["_id"])
    IN  \E k \in 1..Len(last.items) : last.items[k]["_id"] = x

\* how many of the expected documents the listing reaches
Reach ==
    CASE last.op \in {"list_ads", "list_threads"} ->
             IF Len(Expected) < AdLimit THEN Len(Expected) ELSE AdLimit
      [] last.op = "list_posts" ->
             IF Len(Expected) < PostLimit THEN Len(Expected) ELSE PostLimit
      [] OTHER -> Len(Expected)

C7_IdOfCreate ==
    (last.op \in DOMAIN CreateOps /\ last.status = 200) => Inserted(CreateOps[last.op])

\* C7 as stated: every stored document of a resource is among the items of
\* the resource's unfiltered listing, under the id its create returned.
C7_RoundTrip ==
    /\ C7_IdOfCreate
    /\ Unfiltered => \A i \in 1..Len(Expected) : Returned(Expected[i])

\* C7 amended: a stored document is among the items of the unfiltered listing
\* when the listing has no limit (freelancers, portfolio items, reservations)
\* or the document is among the first 50 advertisements or threads, or the
\* first 200 posts carrying its thread_id, in store order.
C7_RoundTripWithinLimit ==
    /\ C7_IdOfCreate
    /\ Unfiltered => \A i \in 1..Reach : Returned(Expected[i])

C7_Witness ==
    /\ last.op = "list_posts"
    /\ Len(Expected) > PostLimit
    /\ Returned(Expected[PostLimit])
    /\ ~Returned(Expected[PostLimit + 1])

----------------------------------------------------------------------------
(* C8 *)

\* some element of the list has v in it, whatever the case of the letters
AnyHas(list, v) == \E i \in 1..Len(list) : CiContains(list[i], v)

\* the document matches the query parameters of the latest listing
Matches(d) ==
    CASE last.op = "list_freelancers" ->
             last.req = <<>> \/ AnyHas(d.skills, last.req)
      [] last.op = "list_portfolio" ->
             last.req = <<>> \/ d.freelancer_id = last.req
      [] last.op = "list_reservations" ->
             /\ last.req.freelancer_id = <<>>
                  \/ d.freelancer_id = last.req.freelancer_id
             /\ last.req.business_email = <<>>
                  \/ d.business_email = last.req.business_email
      [] last.op = "list_ads" -> last.req = "" \/ d.ad_type = last.req
      [] last.op = "list_threads" -> last.req = <<>> \/ AnyHas(d.tags, last.req)
      [] last.op = "list_posts" -> d.thread_id = last.req

Matching == SelectSeq(db[ListOps[last.op]], Matches)

\* C8: GET /ads and GET /forum/threads return at most 50 items and
\* GET /forum/posts at most 200, a prefix in store order of the matching
\* documents; GET /freelancers, /portfolio and /reservations return every
\* matching document.
C8_Limits ==
    last.op \in DOMAIN ListOps =>
        /\ IsPrefix(last.items, StrIds(Matching))
        /\ last.op \in {"list_ads", "list_threads"} =>
              /\ Len(last.items) <= 50
              /\ Len(last.items) < 50 => Len(last.items) = Len(Matching)
        /\ last.op = "list_posts" =>
              /\ Len(last.items) <= 200
              /\ Len(last.items) < 200 => Len(last.items) = Len(Matching)
        /\ last.op \in {"list_freelancers", "list_portfolio", "list_reservations"} =>
              Len(last.items) = Len(Matching)

C8_Witness ==
    /\ last.op = "list_ads"
    /\ Len(Matching) > AdLimit
    /\ Len(last.items) = AdLimit

----------------------------------------------------------------------------
(* C9 *)

ReadOps == DOMAIN ListOps \cup {"read_root", "hello", "test_database"}

\* C9: no request updates or deletes a stored document: every collection
\* only grows at its end, a stored document keeps its identifier and its
\* fields (a reservation its status), and the listings and /, /api/hello,
\* /test leave the store as it is.
C9_AppendOnly ==
    [][/\ \A c \in Collections : IsPrefix(db[c], db'[c])
       /\ last'.op \in ReadOps => db' = db]_vars

C9_Witness ==
    /\ Len(db["reservation"]) = 1
    /\ db["reservation"][1].status = "confirmed"
    /\ last.op = "create_reservation"
    /\ last.status = 409
    /\ last.req.status = "pending"

----------------------------------------------------------------------------
(* C10 *)

\* C10: under any interleaving, every stored portfolio item and reservation
\* has a freelancer_id that resolves to a stored freelancer, and every stored
\* forum post a thread_id that resolves to a stored thread.
C10_ReferentialIntegrity ==
    /\ \A i \in 1..Len(db["portfolioitem"]) :
           Resolves("freelancer", db["portfolioitem"][i].freelancer_id)
    /\ \A i \in 1..Len(db["reservation"]) :
           Resolves("freelancer", db["reservation"][i].freelancer_id)
    /\ \A i \in 1..Len(db["forumpost"]) :
           Resolves("forumthread", db["forumpost"][i].thread_id)

C10_Witness ==
    /\ Len(db["portfolioitem"]) > 0
    /\ \E p \in Procs : pc[p] = "res_insert"
    /\ last.op = "create_post"
    /\ last.status = 404

====
